---- MODULE Spec2Model ----
(***************************************************************************)
(* Records view of the admin panel: UsersPage with its edit modal and its  *)
(* delete confirmation dialog, and the requests they have in flight; the   *)
(* session held by AuthProvider and the route gate in front of the view.   *)
(*                                                                         *)
(* A string is a sequence of one-character strings, so that toLowerCase,   *)
(* trim and includes are computed character by character.                  *)
(* A user object carries a field ref that tells apart the objects of one   *)
(* id, so that Object.is can be decided where the code relies on it.       *)
(***************************************************************************)
EXTENDS Integers, Sequences, FiniteSets, TLC

(* ---------------------------- bounds ----------------------------------- *)

\* pages the list endpoint serves
MaxPages == 3
\* records per served page
PageSize == 2
\* longest search term drawn in the filter specification
MaxTermLen == 2
\* requests left in flight by unmounted records views
MaxOrphans == 2

(* ---------------------------- strings ---------------------------------- *)

Letters == {"a", "b", "A", "B"}
Chars == Letters \cup {" ", "@"}

LowerChar(c) == IF c = "A" THEN "a" ELSE IF c = "B" THEN "b" ELSE c

\* String.prototype.toLowerCase
toLowerCase(s) == [i \in 1..Len(s) |-> LowerChar(s[i])]

\* String.prototype.trim: drops the leading and the trailing white space
RECURSIVE trimStart(_)
trimStart(s) == IF s # <<>> /\ Head(s) = " " THEN trimStart(Tail(s)) ELSE s

RECURSIVE trimEnd(_)
trimEnd(s) ==
    IF s # <<>> /\ s[Len(s)] = " " THEN trimEnd(SubSeq(s, 1, Len(s) - 1)) ELSE s

trim(s) == trimEnd(trimStart(s))

\* String.prototype.includes
includes(s, q) ==
    \E i \in 0..(Len(s) - Len(q)) : SubSeq(s, i + 1, i + Len(q)) = q

\* all strings over cs of length at most n
RECURSIVE StringsUpTo(_, _)
StringsUpTo(cs, n) ==
    IF n = 0 THEN {<<>>}
    ELSE LET shorter == StringsUpTo(cs, n - 1)
         IN  shorter \cup {Append(s, c) : s \in shorter, c \in cs}

(* ---------------------------- data ------------------------------------- *)

\* the value of a User | null state that holds no user
NullUser ==
    [id |-> 0, first_name |-> <<>>, last_name |-> <<>>, email |-> <<>>,
     avatar |-> 0, ref |-> 0]

\* the record the list endpoint serves under an id (the ref is given on parse)
ServerUser(id) ==
    [id |-> id,
     first_name |-> IF id % 2 = 1 THEN <<"A", "b">> ELSE <<"B">>,
     last_name |-> IF id % 2 = 1 THEN <<"b", "a">> ELSE <<"a", "B">>,
     email |-> IF id % 2 = 1 THEN <<"a", "@", "b">> ELSE <<"b", "@", "a">>,
     avatar |-> id,
     ref |-> 0]

\* data.data of GET /users?page=p when the server reports tp pages
ServerPage(p, tp) ==
    IF p <= tp
    THEN [i \in 1..PageSize |-> ServerUser((p - 1) * PageSize + i)]
    ELSE <<>>

\* what the user types into the search box of the records view: nothing, or a
\* term that the last name of every other served record contains
SearchTerms == {<<>>, <<"b", "A">>}

\* what the user types into a field of the edit form: nothing, or a text that
\* is a name and is no email address
TypedValues == {<<>>, <<"B">>}

\* the lists of distinct served records of at most a page
UserLists ==
    LET ids == 1..(MaxPages * PageSize)
        RECURSIVE lists(_)
        lists(n) ==
            IF n = 0 THEN {<<>>}
            ELSE LET shorter == lists(n - 1)
                 IN  shorter \cup
                     {Append(l, [ServerUser(id) EXCEPT !.ref = 1]) :
                         l \in {m \in shorter : Len(m) = n - 1}, id \in ids}
    IN  {l \in lists(PageSize) : \A i, j \in DOMAIN l : l[i].id = l[j].id => i = j}

FieldNames == {"first_name", "last_name", "email"}

(* ---------------------------- state ------------------------------------ *)

VARIABLES
    \* UsersPage
    users, filteredUsers, searchQuery, loading, currentPage, totalPages,
    editingUser, isEditModalOpen, deletingUser, isDeleteDialogOpen,
    \* UserEditModal
    formData, isSubmitting,
    \* UserDeleteDialog
    isDeleting,
    \* requests in flight: GET /users, PUT /users/id, DELETE /users/id
    listReqs, updReqs, delReqs,
    \* the notification raised by the last step ("none" when it raised none)
    notice,
    \* AuthProvider: its state, localStorage's item 'token', the POST /login
    \* requests in flight
    token, isAuthenticated, stored, authLoading, loginReqs,
    \* the router's location, whether the records view is mounted, and the
    \* requests in flight whose view has been unmounted, counted by kind
    route, mounted, orphans

pageVars == <<users, filteredUsers, searchQuery, loading, currentPage, totalPages>>
editVars == <<editingUser, isEditModalOpen, formData, isSubmitting>>
deleteVars == <<deletingUser, isDeleteDialogOpen, isDeleting>>
netVars == <<listReqs, updReqs, delReqs>>
sessionVars == <<token, isAuthenticated, stored, authLoading, loginReqs>>
shellVars == <<route, mounted, orphans>>
appVars == <<sessionVars, shellVars>>
vars == <<pageVars, editVars, deleteVars, netVars, notice, appVars>>

\* s without its i-th element
RemoveAt(s, i) == SubSeq(s, 1, i - 1) \o SubSeq(s, i + 1, Len(s))

\* the kinds of request a records view makes
Kinds == {"list", "update", "delete"}

NoOrphans == [kind \in Kinds |-> 0]

\* the number of requests in flight without a view
OrphanCount == orphans["list"] + orphans["update"] + orphans["delete"]

(* ---------------------------- object identity -------------------------- *)

\* Object.is on user objects. The code compares identities in one place, the
\* modal's effect on its user prop, which holds editingUser; no object ever
\* changes its id.
SameObject(a, b) == a.id = b.id /\ a.ref = b.ref

\* the ref of a new object of this id: it differs from the ref of the object
\* editingUser holds when that object has the same id
NewRef(id) == IF editingUser.id = id /\ editingUser.ref = 1 THEN 2 ELSE 1

\* response.json(): every record of the body becomes a new object
ParseUsers(data) ==
    [i \in DOMAIN data |-> [data[i] EXCEPT !.ref = NewRef(data[i].id)]]

(* ---------------------------- UsersPage -------------------------------- *)

\* the filter effect, run when searchQuery or users changes
FilterUsers(us, q) ==
    IF trim(q) = <<>>
    THEN us
    ELSE LET query == toLowerCase(q)
             match(user) ==
                 \/ includes(toLowerCase(user.first_name), query)
                 \/ includes(toLowerCase(user.last_name), query)
                 \/ includes(toLowerCase(user.email), query)
         IN  SelectSeq(us, match)

\* Dialog and AlertDialog are modal: while one is open the page behind it
\* takes no input
PageInteractive == mounted /\ ~isEditModalOpen /\ ~isDeleteDialogOpen

\* the application started at the records route with a persisted token: the
\* state of a freshly mounted UsersPage, after its mount effects: the fetch of
\* page 1 is in flight
Init ==
    /\ users = <<>>
    /\ filteredUsers = <<>>
    /\ searchQuery = <<>>
    /\ loading = TRUE
    /\ currentPage = 1
    /\ totalPages = 1
    /\ editingUser = NullUser
    /\ isEditModalOpen = FALSE
    /\ deletingUser = NullUser
    /\ isDeleteDialogOpen = FALSE
    /\ formData = [first_name |-> <<>>, last_name |-> <<>>, email |-> <<>>]
    /\ isSubmitting = FALSE
    /\ isDeleting = FALSE
    /\ listReqs = <<[page |-> 1]>>
    /\ updReqs = <<>>
    /\ delReqs = <<>>
    /\ notice = "none"
    /\ token = "t1"
    /\ isAuthenticated = TRUE
    /\ stored = "t1"
    /\ authLoading = FALSE
    /\ loginReqs = <<>>
    /\ route = "/users"
    /\ mounted = TRUE
    /\ orphans = NoOrphans

\* FetchOk without the filter effect: the view is the page as line 37 sets it
FetchOkUnfiltered(i, tp) ==
    /\ i \in DOMAIN listReqs
    /\ LET data == ParseUsers(ServerPage(listReqs[i].page, tp))
       IN  /\ users' = data
           /\ filteredUsers' = data
    /\ totalPages' = tp
    /\ loading' = FALSE
    /\ listReqs' = RemoveAt(listReqs, i)
    /\ notice' = "none"
    /\ UNCHANGED <<appVars, searchQuery, currentPage, editVars, deleteVars, updReqs, delReqs>>

\* fetchUsers resumes with an ok response of tp pages; then the filter effect,
\* which the new users array triggers
FetchOk(i, tp) ==
    /\ i \in DOMAIN listReqs
    /\ LET data == ParseUsers(ServerPage(listReqs[i].page, tp))
       IN  /\ users' = data
           /\ filteredUsers' = FilterUsers(data, searchQuery)
    /\ totalPages' = tp
    /\ loading' = FALSE
    /\ listReqs' = RemoveAt(listReqs, i)
    /\ notice' = "none"
    /\ UNCHANGED <<appVars, searchQuery, currentPage, editVars, deleteVars, updReqs, delReqs>>

\* fetchUsers resumes with a response that is not ok, or the fetch rejects
FetchFail(i) ==
    /\ i \in DOMAIN listReqs
    /\ loading' = FALSE
    /\ listReqs' = RemoveAt(listReqs, i)
    /\ notice' = "Failed to load users"
    /\ UNCHANGED <<appVars, users, filteredUsers, searchQuery, currentPage, totalPages,
                   editVars, deleteVars, updReqs, delReqs>>

\* the search input's onChange, then the filter effect
SetSearchQuery(t) ==
    /\ PageInteractive
    /\ t # searchQuery
    /\ searchQuery' = t
    /\ filteredUsers' = FilterUsers(users, t)
    /\ notice' = "none"
    /\ UNCHANGED <<appVars, users, loading, currentPage, totalPages,
                   editVars, deleteVars, netVars>>

\* goToNextPage without the test of the range
goToNextPageUnchecked ==
    /\ PageInteractive
    /\ ~(currentPage = totalPages \/ loading)
    /\ currentPage' = currentPage + 1
    /\ loading' = TRUE
    /\ listReqs' = Append(listReqs, [page |-> currentPage + 1])
    /\ notice' = "none"
    /\ UNCHANGED <<appVars, users, filteredUsers, searchQuery, totalPages,
                   editVars, deleteVars, updReqs, delReqs>>

\* goToNextPage with the button live while a fetch is in flight
goToNextPageWhileLoading ==
    /\ PageInteractive
    /\ ~(currentPage = totalPages)
    /\ IF currentPage < totalPages
       THEN /\ currentPage' = currentPage + 1
            /\ loading' = TRUE
            /\ listReqs' = Append(listReqs, [page |-> currentPage + 1])
       ELSE UNCHANGED <<currentPage, loading, listReqs>>
    /\ notice' = "none"
    /\ UNCHANGED <<appVars, users, filteredUsers, searchQuery, totalPages,
                   editVars, deleteVars, updReqs, delReqs>>

\* the Next button (disabled on the last page and while loading): the handler
\* changes the page only below totalPages, and the effect on currentPage calls
\* fetchUsers when the page has changed
goToNextPage ==
    /\ PageInteractive
    /\ ~(currentPage = totalPages \/ loading)
    /\ IF currentPage < totalPages
       THEN /\ currentPage' = currentPage + 1
            /\ loading' = TRUE
            /\ listReqs' = Append(listReqs, [page |-> currentPage + 1])
       ELSE UNCHANGED <<currentPage, loading, listReqs>>
    /\ notice' = "none"
    /\ UNCHANGED <<appVars, users, filteredUsers, searchQuery, totalPages,
                   editVars, deleteVars, updReqs, delReqs>>

\* the Previous button (disabled on page 1 and while loading): the handler
\* changes the page only above 1, and the effect on currentPage calls
\* fetchUsers when the page has changed
goToPrevPage ==
    /\ PageInteractive
    /\ ~(currentPage = 1 \/ loading)
    /\ IF currentPage > 1
       THEN /\ currentPage' = currentPage - 1
            /\ loading' = TRUE
            /\ listReqs' = Append(listReqs, [page |-> currentPage - 1])
       ELSE UNCHANGED <<currentPage, loading, listReqs>>
    /\ notice' = "none"
    /\ UNCHANGED <<appVars, users, filteredUsers, searchQuery, totalPages,
                   editVars, deleteVars, updReqs, delReqs>>

\* a card's Edit button (the cards are rendered only while not loading), then
\* the modal's effect on its user prop, which seeds the form when the prop
\* holds another object than at the last render
handleEditUser(k) ==
    /\ PageInteractive
    /\ ~loading
    /\ k \in DOMAIN filteredUsers
    /\ editingUser' = filteredUsers[k]
    /\ isEditModalOpen' = TRUE
    /\ formData' =
           IF ~SameObject(filteredUsers[k], editingUser)
           THEN [first_name |-> filteredUsers[k].first_name,
                 last_name |-> filteredUsers[k].last_name,
                 email |-> filteredUsers[k].email]
           ELSE formData
    /\ notice' = "none"
    /\ UNCHANGED <<appVars, pageVars, isSubmitting, deleteVars, netVars>>

\* a || b on strings: the empty string is falsy
OrElse(a, b) == IF a # <<>> THEN a ELSE b

\* ApplyUpdate without the test of the id: every held record takes the fields
ApplyUpdateAll(prevUsers, id, userData) ==
    [k \in DOMAIN prevUsers |->
        [prevUsers[k] EXCEPT
            !.first_name = OrElse(userData.first_name, @),
            !.last_name = OrElse(userData.last_name, @),
            !.email = OrElse(userData.email, @),
            !.ref = NewRef(prevUsers[k].id)]]

\* the updater of saveUserChanges: prevUsers.map(...)
ApplyUpdate(prevUsers, id, userData) ==
    [k \in DOMAIN prevUsers |->
        IF prevUsers[k].id = id
        THEN [prevUsers[k] EXCEPT
                 !.first_name = OrElse(userData.first_name, @),
                 !.last_name = OrElse(userData.last_name, @),
                 !.email = OrElse(userData.email, @),
                 !.ref = NewRef(id)]
        ELSE prevUsers[k]]

\* ApplyDelete with the test of the id inverted: only the target is kept
ApplyDeleteInverted(prevUsers, id) ==
    LET keep(user) == user.id = id
    IN  SelectSeq(prevUsers, keep)

\* the updater of confirmDeleteUser: prevUsers.filter(...)
ApplyDelete(prevUsers, id) ==
    LET keep(user) == user.id # id
    IN  SelectSeq(prevUsers, keep)

\* the card's Delete button
handleDeleteUser(k) ==
    /\ PageInteractive
    /\ ~loading
    /\ k \in DOMAIN filteredUsers
    /\ deletingUser' = filteredUsers[k]
    /\ isDeleteDialogOpen' = TRUE
    /\ notice' = "none"
    /\ UNCHANGED <<appVars, pageVars, editVars, isDeleting, netVars>>

(* ---------------------------- UserEditModal ---------------------------- *)

\* an input of type email accepts local@domain: a local part and a domain of
\* at least one character each, with no white space and no further @
IsValidEmail(s) ==
    \E i \in 1..Len(s) :
        /\ s[i] = "@"
        /\ 1 < i
        /\ i < Len(s)
        /\ \A j \in (1..Len(s)) \ {i} : s[j] \in Letters

\* FormValid with the first name not required
FormValidLax(fd) ==
    /\ fd.last_name # <<>>
    /\ fd.email # <<>>
    /\ IsValidEmail(fd.email)

\* the form's constraint validation: three required inputs, one of type email
FormValid(fd) ==
    /\ fd.first_name # <<>>
    /\ fd.last_name # <<>>
    /\ fd.email # <<>>
    /\ IsValidEmail(fd.email)

\* an input's onChange
handleChange(name, value) ==
    /\ isEditModalOpen
    /\ value # formData[name]
    /\ formData' = [formData EXCEPT ![name] = value]
    /\ notice' = "none"
    /\ UNCHANGED <<appVars, pageVars, editingUser, isEditModalOpen, isSubmitting,
                   deleteVars, netVars>>

\* handleSubmit with the submit button live while isSubmitting
handleSubmitWhileSubmitting ==
    /\ isEditModalOpen
    /\ FormValid(formData)
    /\ editingUser # NullUser
    /\ isSubmitting' = TRUE
    /\ updReqs' = Append(updReqs, [id |-> editingUser.id, userData |-> formData])
    /\ notice' = "none"
    /\ UNCHANGED <<appVars, pageVars, editingUser, isEditModalOpen, formData,
                   deleteVars, listReqs, delReqs>>

\* the submit button (disabled while isSubmitting) on a valid form:
\* handleSubmit up to the await in saveUserChanges
handleSubmit ==
    /\ isEditModalOpen
    /\ ~isSubmitting
    /\ FormValid(formData)
    /\ editingUser # NullUser
    /\ isSubmitting' = TRUE
    /\ updReqs' = Append(updReqs, [id |-> editingUser.id, userData |-> formData])
    /\ notice' = "none"
    /\ UNCHANGED <<appVars, pageVars, editingUser, isEditModalOpen, formData,
                   deleteVars, listReqs, delReqs>>

\* the submit button on an invalid form: the browser reports the first invalid
\* input and does not dispatch the submit event
submitBlocked ==
    /\ isEditModalOpen
    /\ ~isSubmitting
    /\ ~FormValid(formData)
    /\ notice' = "validation"
    /\ UNCHANGED <<appVars, pageVars, editVars, deleteVars, netVars>>

\* the PUT resolves ok: saveUserChanges updates the list, handleSubmit closes
saveOk(i) ==
    /\ i \in DOMAIN updReqs
    /\ LET next == ApplyUpdate(users, updReqs[i].id, updReqs[i].userData)
       IN  /\ users' = next
           /\ filteredUsers' = FilterUsers(next, searchQuery)
    /\ isEditModalOpen' = FALSE
    /\ isSubmitting' = FALSE
    /\ updReqs' = RemoveAt(updReqs, i)
    /\ notice' = "User updated successfully"
    /\ UNCHANGED <<appVars, searchQuery, loading, currentPage, totalPages, editingUser,
                   formData, deleteVars, listReqs, delReqs>>

\* the PUT fails: saveUserChanges rethrows, handleSubmit reports
saveFail(i) ==
    /\ i \in DOMAIN updReqs
    /\ isSubmitting' = FALSE
    /\ updReqs' = RemoveAt(updReqs, i)
    /\ notice' = "Failed to update user"
    /\ UNCHANGED <<appVars, pageVars, editingUser, isEditModalOpen, formData,
                   deleteVars, listReqs, delReqs>>

\* onClose of the edit modal: the Cancel button, or onOpenChange on Escape,
\* a click outside or the close button
editClose ==
    /\ isEditModalOpen
    /\ isEditModalOpen' = FALSE
    /\ notice' = "none"
    /\ UNCHANGED <<appVars, pageVars, editingUser, formData, isSubmitting,
                   deleteVars, netVars>>

(* ---------------------------- UserDeleteDialog ------------------------- *)

\* the Delete button (disabled while isDeleting): handleConfirm up to the
\* await in confirmDeleteUser, whose closure holds deletingUser
handleConfirm ==
    /\ isDeleteDialogOpen
    /\ ~isDeleting
    /\ deletingUser # NullUser
    /\ isDeleting' = TRUE
    /\ delReqs' = Append(delReqs, [user |-> deletingUser])
    /\ notice' = "none"
    /\ UNCHANGED <<appVars, pageVars, editVars, deletingUser, isDeleteDialogOpen,
                   listReqs, updReqs>>

\* the DELETE resolves ok: confirmDeleteUser removes the record, handleConfirm
\* closes
deleteOk(i) ==
    /\ i \in DOMAIN delReqs
    /\ LET next == ApplyDelete(users, delReqs[i].user.id)
       IN  /\ users' = next
           /\ filteredUsers' = FilterUsers(next, searchQuery)
    /\ isDeleting' = FALSE
    /\ isDeleteDialogOpen' = FALSE
    /\ delReqs' = RemoveAt(delReqs, i)
    /\ notice' = "deleted successfully"
    /\ UNCHANGED <<appVars, searchQuery, loading, currentPage, totalPages, editVars,
                   deletingUser, listReqs, updReqs>>

\* deleteFail with the record removed before the response is looked at
deleteFailOptimistic(i) ==
    /\ i \in DOMAIN delReqs
    /\ LET next == ApplyDelete(users, delReqs[i].user.id)
       IN  /\ users' = next
           /\ filteredUsers' = FilterUsers(next, searchQuery)
    /\ isDeleting' = FALSE
    /\ isDeleteDialogOpen' = FALSE
    /\ delReqs' = RemoveAt(delReqs, i)
    /\ notice' = "Failed to delete user"
    /\ UNCHANGED <<appVars, searchQuery, loading, currentPage, totalPages, editVars,
                   deletingUser, listReqs, updReqs>>

\* deleteFail with onClose called on success only
deleteFailStaysOpen(i) ==
    /\ i \in DOMAIN delReqs
    /\ isDeleting' = FALSE
    /\ delReqs' = RemoveAt(delReqs, i)
    /\ notice' = "Failed to delete user"
    /\ UNCHANGED <<appVars, pageVars, editVars, deletingUser, isDeleteDialogOpen,
                   listReqs, updReqs>>

\* the DELETE fails: confirmDeleteUser reports and rethrows, handleConfirm
\* closes
deleteFail(i) ==
    /\ i \in DOMAIN delReqs
    /\ isDeleting' = FALSE
    /\ isDeleteDialogOpen' = FALSE
    /\ delReqs' = RemoveAt(delReqs, i)
    /\ notice' = "Failed to delete user"
    /\ UNCHANGED <<appVars, pageVars, editVars, deletingUser, listReqs, updReqs>>

\* the Cancel button of the delete dialog (disabled while isDeleting)
deleteCancel ==
    /\ isDeleteDialogOpen
    /\ ~isDeleting
    /\ isDeleteDialogOpen' = FALSE
    /\ notice' = "none"
    /\ UNCHANGED <<appVars, pageVars, editVars, deletingUser, isDeleting, netVars>>

\* onOpenChange of the delete dialog on Escape
deleteDismiss ==
    /\ isDeleteDialogOpen
    /\ isDeleteDialogOpen' = FALSE
    /\ notice' = "none"
    /\ UNCHANGED <<appVars, pageVars, editVars, deletingUser, isDeleting, netVars>>

(* ---------------------------- AuthProvider ----------------------------- *)

\* the absent token: null in the state, no item 'token' in localStorage
null == "null"

\* the tokens the authentication endpoint issues
Tokens == {"t1", "t2"}

Routes == {"/login", "/users"}

\* the login form, shown at /login; its button is off while a login is in
\* flight
LoginFormLive == route = "/login" /\ ~authLoading

\* ProtectedRoute with the outlet rendered whatever the session is
ProtectedRouteOpen(r, auth) == r

\* the location the router settles at when asked for r: ProtectedRoute renders
\* the outlet of /users for an authenticated session and navigates to /login
\* otherwise
ProtectedRoute(r, auth) == IF r = "/users" /\ ~auth THEN "/login" ELSE r

\* the state of a UsersPage instance as useState initialises it, with no
\* update or delete request of its own
FreshView ==
    /\ users' = <<>>
    /\ filteredUsers' = <<>>
    /\ searchQuery' = <<>>
    /\ loading' = TRUE
    /\ currentPage' = 1
    /\ totalPages' = 1
    /\ editingUser' = NullUser
    /\ isEditModalOpen' = FALSE
    /\ deletingUser' = NullUser
    /\ isDeleteDialogOpen' = FALSE
    /\ formData' = [first_name |-> <<>>, last_name |-> <<>>, email |-> <<>>]
    /\ isSubmitting' = FALSE
    /\ isDeleting' = FALSE
    /\ updReqs' = <<>>
    /\ delReqs' = <<>>

\* the requests without a view once the mounted view is unmounted: its
\* pending requests stay in flight
Orphaned ==
    [kind \in Kinds |->
        orphans[kind] + CASE kind = "list" -> Len(listReqs)
                          [] kind = "update" -> Len(updReqs)
                          [] kind = "delete" -> Len(delReqs)]

\* the router settles at the location asked for (r) under the session auth:
\* UsersPage is mounted with the fetch effect of its first render, unmounted
\* with its state discarded and its requests left in flight, or left as it is
Render(r, auth) ==
    LET at == ProtectedRoute(r, auth)
    IN  /\ route' = at
        /\ mounted' = (at = "/users")
        /\ IF at = "/users" /\ ~mounted
           THEN /\ FreshView
                /\ listReqs' = <<[page |-> 1]>>
                /\ orphans' = orphans
           ELSE IF at # "/users" /\ mounted
           THEN /\ OrphanCount + Len(listReqs) + Len(updReqs) + Len(delReqs)
                       <= MaxOrphans
                /\ FreshView
                /\ listReqs' = <<>>
                /\ orphans' = Orphaned
           ELSE UNCHANGED <<pageVars, editVars, deleteVars, netVars, orphans>>

\* the login form's submit: login up to the await of the POST
login ==
    /\ LoginFormLive
    /\ authLoading' = TRUE
    /\ loginReqs' = Append(loginReqs, [email |-> "eve.holt@reqres.in"])
    /\ notice' = "none"
    /\ UNCHANGED <<pageVars, editVars, deleteVars, netVars,
                   token, isAuthenticated, stored, shellVars>>

\* loginOk with the token kept in the state only
loginOkNotPersisted(i, t) ==
    /\ i \in DOMAIN loginReqs
    /\ token' = t
    /\ isAuthenticated' = TRUE
    /\ Render("/users", TRUE)
    /\ authLoading' = FALSE
    /\ loginReqs' = RemoveAt(loginReqs, i)
    /\ notice' = "Login successful"
    /\ UNCHANGED stored

\* the POST resolves ok with token t: login persists it, sets the state and
\* navigates to /users
loginOk(i, t) ==
    /\ i \in DOMAIN loginReqs
    /\ stored' = t
    /\ token' = t
    /\ isAuthenticated' = TRUE
    /\ Render("/users", TRUE)
    /\ authLoading' = FALSE
    /\ loginReqs' = RemoveAt(loginReqs, i)
    /\ notice' = "Login successful"

\* loginFail with the token of the response body persisted before the status
\* is looked at
loginFailPersists(i) ==
    /\ i \in DOMAIN loginReqs
    /\ stored' = "t1"
    /\ authLoading' = FALSE
    /\ loginReqs' = RemoveAt(loginReqs, i)
    /\ notice' = "Login failed"
    /\ UNCHANGED <<pageVars, editVars, deleteVars, netVars,
                   token, isAuthenticated, shellVars>>

\* the POST is rejected or fails: login reports and clears loading
loginFail(i) ==
    /\ i \in DOMAIN loginReqs
    /\ authLoading' = FALSE
    /\ loginReqs' = RemoveAt(loginReqs, i)
    /\ notice' = "Login failed"
    /\ UNCHANGED <<pageVars, editVars, deleteVars, netVars,
                   token, isAuthenticated, stored, shellVars>>

\* logout with the item left in localStorage
logoutKeepsItem ==
    /\ PageInteractive
    /\ token' = null
    /\ isAuthenticated' = FALSE
    /\ Render("/login", FALSE)
    /\ notice' = "Logged out successfully"
    /\ UNCHANGED <<stored, authLoading, loginReqs>>

\* the navigation bar's logout, on the records view
logout ==
    /\ PageInteractive
    /\ stored' = null
    /\ token' = null
    /\ isAuthenticated' = FALSE
    /\ Render("/login", FALSE)
    /\ notice' = "Logged out successfully"
    /\ UNCHANGED <<authLoading, loginReqs>>

\* the browser's back or forward button moves the location to r
navigate(r) ==
    /\ r # route
    /\ Render(r, isAuthenticated)
    /\ notice' = "none"
    /\ UNCHANGED sessionVars

\* the notification a request's continuation raises
Toast(kind, ok) ==
    CASE kind = "list" -> IF ok THEN "none" ELSE "Failed to load users"
      [] kind = "update" -> IF ok THEN "User updated successfully"
                                  ELSE "Failed to update user"
      [] kind = "delete" -> IF ok THEN "deleted successfully"
                                  ELSE "Failed to delete user"

\* orphanDone with the setters of the unmounted view reaching the mounted one:
\* the finally of fetchUsers clears its loading
orphanDoneApplied(kind, ok) ==
    /\ orphans[kind] > 0
    /\ orphans' = [orphans EXCEPT ![kind] = @ - 1]
    /\ notice' = Toast(kind, ok)
    /\ loading' = IF kind = "list" /\ mounted THEN FALSE ELSE loading
    /\ UNCHANGED <<users, filteredUsers, searchQuery, currentPage, totalPages,
                   editVars, deleteVars, netVars, sessionVars, route, mounted>>

\* a request of an unmounted view completes: its continuation raises its
\* notification, and its state setters, those of the unmounted instance, set
\* nothing
orphanDone(kind, ok) ==
    /\ orphans[kind] > 0
    /\ orphans' = [orphans EXCEPT ![kind] = @ - 1]
    /\ notice' = Toast(kind, ok)
    /\ UNCHANGED <<pageVars, editVars, deleteVars, netVars, sessionVars,
                   route, mounted>>

(* ---------------------------- specification ---------------------------- *)

PageNext ==
    \/ \E i \in DOMAIN listReqs, tp \in 1..MaxPages : FetchOk(i, tp)
    \/ \E i \in DOMAIN listReqs : FetchFail(i)
    \/ \E t \in SearchTerms : SetSearchQuery(t)
    \/ goToNextPage
    \/ goToPrevPage

EditNext ==
    \/ \E k \in DOMAIN filteredUsers : handleEditUser(k)
    \/ \E name \in FieldNames, value \in TypedValues : handleChange(name, value)
    \/ handleSubmit
    \/ submitBlocked
    \/ \E i \in DOMAIN updReqs : saveOk(i)
    \/ \E i \in DOMAIN updReqs : saveFail(i)
    \/ editClose

DeleteNext ==
    \/ \E k \in DOMAIN filteredUsers : handleDeleteUser(k)
    \/ handleConfirm
    \/ \E i \in DOMAIN delReqs : deleteOk(i)
    \/ \E i \in DOMAIN delReqs : deleteFail(i)
    \/ deleteCancel
    \/ deleteDismiss

SessionNext ==
    \/ login
    \/ \E i \in DOMAIN loginReqs, t \in Tokens : loginOk(i, t)
    \/ \E i \in DOMAIN loginReqs : loginFail(i)
    \/ logout
    \/ \E r \in Routes : navigate(r)
    \/ \E kind \in Kinds, ok \in BOOLEAN : orphanDone(kind, ok)

\* the application: the records view behind the session
Next == PageNext \/ EditNext \/ DeleteNext \/ SessionNext

Spec == Init /\ [][Next]_vars

\* the records view and its edit modal
EditSpec == Init /\ [][PageNext \/ EditNext]_vars

\* the records view and its delete dialog
DeleteSpec == Init /\ [][PageNext \/ DeleteNext]_vars

\* the filter effect on every list and every search term: a page is held, no
\* request is in flight, and the user types a term
FilterInit ==
    /\ users \in UserLists
    /\ filteredUsers = users
    /\ searchQuery = <<>>
    /\ loading = FALSE
    /\ currentPage = 1
    /\ totalPages = MaxPages
    /\ editingUser = NullUser
    /\ isEditModalOpen = FALSE
    /\ deletingUser = NullUser
    /\ isDeleteDialogOpen = FALSE
    /\ formData = [first_name |-> <<>>, last_name |-> <<>>, email |-> <<>>]
    /\ isSubmitting = FALSE
    /\ isDeleting = FALSE
    /\ listReqs = <<>>
    /\ updReqs = <<>>
    /\ delReqs = <<>>
    /\ notice = "none"
    /\ token = "t1"
    /\ isAuthenticated = TRUE
    /\ stored = "t1"
    /\ authLoading = FALSE
    /\ loginReqs = <<>>
    /\ route = "/users"
    /\ mounted = TRUE
    /\ orphans = NoOrphans

FilterNext == \E t \in StringsUpTo(Chars, MaxTermLen) : SetSearchQuery(t)

FilterSpec == FilterInit /\ [][FilterNext]_vars

\* the records view in front of a list endpoint of two pages whose requests
\* all succeed: search, paging, edits of the last name and deletes, the
\* dialogs closed by their Cancel buttons or by the completion
ViewNext ==
    \/ \E i \in DOMAIN listReqs : FetchOk(i, 2)
    \/ \E t \in SearchTerms : SetSearchQuery(t)
    \/ goToNextPage
    \/ goToPrevPage
    \/ \E k \in DOMAIN filteredUsers : handleEditUser(k)
    \/ \E value \in TypedValues : handleChange("last_name", value)
    \/ handleSubmit
    \/ \E i \in DOMAIN updReqs : saveOk(i)
    \/ editClose
    \/ \E k \in DOMAIN filteredUsers : handleDeleteUser(k)
    \/ handleConfirm
    \/ \E i \in DOMAIN delReqs : deleteOk(i)
    \/ deleteCancel

ViewSpec == Init /\ [][ViewNext]_vars

\* the application from its start: with or without a persisted token, at
\* either route
SessionInit ==
    /\ stored \in Tokens \cup {null}
    /\ token = stored
    /\ isAuthenticated = (stored # null)
    /\ authLoading = FALSE
    /\ loginReqs = <<>>
    /\ \E r \in Routes : route = ProtectedRoute(r, isAuthenticated)
    /\ mounted = (route = "/users")
    /\ orphans = NoOrphans
    /\ users = <<>>
    /\ filteredUsers = <<>>
    /\ searchQuery = <<>>
    /\ loading = TRUE
    /\ currentPage = 1
    /\ totalPages = 1
    /\ editingUser = NullUser
    /\ isEditModalOpen = FALSE
    /\ deletingUser = NullUser
    /\ isDeleteDialogOpen = FALSE
    /\ formData = [first_name |-> <<>>, last_name |-> <<>>, email |-> <<>>]
    /\ isSubmitting = FALSE
    /\ isDeleting = FALSE
    /\ listReqs = IF mounted THEN <<[page |-> 1]>> ELSE <<>>
    /\ updReqs = <<>>
    /\ delReqs = <<>>
    /\ notice = "none"

\* the records view of a list endpoint of one page, with the drafts submitted
\* as seeded and the dialogs closed by their Cancel buttons, by the
\* completion or with the view
RecordsNext ==
    \/ \E i \in DOMAIN listReqs : FetchOk(i, 1)
    \/ \E i \in DOMAIN listReqs : FetchFail(i)
    \/ \E k \in DOMAIN filteredUsers : handleEditUser(k)
    \/ handleSubmit
    \/ \E i \in DOMAIN updReqs : saveOk(i)
    \/ \E i \in DOMAIN updReqs : saveFail(i)
    \/ editClose
    \/ \E k \in DOMAIN filteredUsers : handleDeleteUser(k)
    \/ handleConfirm
    \/ \E i \in DOMAIN delReqs : deleteOk(i)
    \/ \E i \in DOMAIN delReqs : deleteFail(i)
    \/ deleteCancel

\* the session, the route gate and the records view behind it
SessionSpec == SessionInit /\ [][SessionNext \/ RecordsNext]_vars

\* the records view and its two dialogs, closed by Cancel, by Escape or by
\* the completion, before a list endpoint of one page
DialogNext == RecordsNext \/ deleteDismiss

DialogSpec == Init /\ [][DialogNext]_vars

(* ---------------------------- properties ------------------------------- *)

\* the filter as the claim C1 states it: the records that contain
\* lowercase(trim(t)) in one of the three fields, the whole list when trim(t)
\* is empty
TrimmedMatch(us, t) ==
    LET needle == toLowerCase(trim(t))
        has(r) ==
            \/ includes(toLowerCase(r.first_name), needle)
            \/ includes(toLowerCase(r.last_name), needle)
            \/ includes(toLowerCase(r.email), needle)
    IN  IF needle = <<>> THEN us ELSE SelectSeq(us, has)

\* C1: the filtered view is the held records that contain lowercase(trim(t)),
\* in page order, for every list and every search term t
C1_FilteredIsTrimmedMatch == filteredUsers = TrimmedMatch(users, searchQuery)

\* the draft as a submit needs it: three non-empty fields and an email of the
\* shape local@domain
LocalAtDomain(s) == \E i \in 1..Len(s) : s[i] = "@" /\ 1 < i /\ i < Len(s)

DraftAcceptable(fd) ==
    /\ fd.first_name # <<>>
    /\ fd.last_name # <<>>
    /\ fd.email # <<>>
    /\ LocalAtDomain(fd.email)

\* the draft a record seeds
DraftOf(user) ==
    [first_name |-> user.first_name, last_name |-> user.last_name,
     email |-> user.email]

\* C2: a submit of a draft with an empty field or an email not of the shape
\* local@domain issues no update request: it is rejected with a validation
\* error, the dialog stays open and the list is unchanged
C2_InvalidSubmitRejected ==
    [][(/\ ~DraftAcceptable(formData)
        /\ (Len(updReqs') > Len(updReqs) \/ notice' = "validation"))
       => (/\ notice' = "validation"
           /\ updReqs' = updReqs
           /\ isEditModalOpen /\ isEditModalOpen'
           /\ users' = users)]_vars

\* a submit with an empty first name has been rejected
C2_Witness ==
    /\ notice = "validation"
    /\ isEditModalOpen
    /\ formData.first_name = <<>>
    /\ updReqs = <<>>

\* C3: while a submission is in flight the edit dialog closes only through the
\* successful completion of that submission
C3_NoCloseWhileSubmitting ==
    [][(isSubmitting /\ isEditModalOpen /\ ~isEditModalOpen')
       => (/\ notice' = "User updated successfully"
           /\ Len(updReqs') < Len(updReqs))]_vars

\* C4: whenever the edit dialog opens on a record, the draft is that record's
\* first_name, last_name and email
C4_OpenSeedsDraft ==
    [][(~isEditModalOpen /\ isEditModalOpen')
       => (/\ \E k \in DOMAIN users : users[k] = editingUser'
           /\ formData' = DraftOf(editingUser'))]_vars

\* C5: when the update request fails, the error is surfaced, the dialog is open
\* with the draft as submitted, isSubmitting is cleared and the list is
\* unchanged
C5_FailureReturnsToOpen ==
    [][(notice' = "Failed to update user")
       => \E i \in DOMAIN updReqs :
              /\ updReqs' = RemoveAt(updReqs, i)
              /\ isEditModalOpen'
              /\ formData' = updReqs[i].userData
              /\ ~isSubmitting'
              /\ users' = users]_vars

\* C6: when update(id, f) succeeds, the held record of that id takes the three
\* fields of f and keeps id and avatar, every other record and the order of
\* the list are unchanged, and a list without that id is unchanged
C6_UpdateMerges ==
    [][(notice' = "User updated successfully")
       => \E i \in DOMAIN updReqs :
              /\ updReqs' = RemoveAt(updReqs, i)
              /\ Len(users') = Len(users)
              /\ \A k \in DOMAIN users :
                     IF users[k].id = updReqs[i].id
                     THEN /\ DraftOf(users'[k]) = updReqs[i].userData
                          /\ users'[k].id = users[k].id
                          /\ users'[k].avatar = users[k].avatar
                     ELSE users'[k] = users[k]]_vars

\* an update has changed the first name of a held record and left another
\* held record as served
C6_Witness ==
    /\ notice = "User updated successfully"
    /\ \E k \in DOMAIN users :
           users[k].first_name # ServerUser(users[k].id).first_name
    /\ \E k \in DOMAIN users :
           DraftOf(users[k]) = DraftOf(ServerUser(users[k].id))

\* C7: a successful delete of id removes exactly the one held record of that
\* id, or nothing when none is held, keeps the other records and their order,
\* and the same delete applied once more changes nothing
C7_DeleteRemovesOne ==
    [][(notice' = "deleted successfully")
       => \E i \in DOMAIN delReqs :
              LET id == delReqs[i].user.id
                  at == {k \in DOMAIN users : users[k].id = id}
              IN  /\ delReqs' = RemoveAt(delReqs, i)
                  /\ Cardinality(at) <= 1
                  /\ \A k \in at : users' = RemoveAt(users, k)
                  /\ at = {} => users' = users
                  /\ ApplyDelete(users', id) = users']_vars

\* a delete has removed one record of a full page and kept the other
C7_Witness ==
    /\ notice = "deleted successfully"
    /\ Len(users) = PageSize - 1
    /\ \A k \in DOMAIN users : users[k].id # deletingUser.id

\* C8: when the server rejects the delete, the list still holds the target
\* with unchanged fields and a failure notification is raised
C8_RejectedDeleteKeepsRecord ==
    [][(Len(delReqs') < Len(delReqs) /\ notice' # "deleted successfully")
       => \E i \in DOMAIN delReqs :
              /\ delReqs' = RemoveAt(delReqs, i)
              /\ notice' = "Failed to delete user"
              /\ Len(users') = Len(users)
              /\ \A k \in DOMAIN users :
                     users[k].id = delReqs[i].user.id => users'[k] = users[k]
              /\ users' = users
              /\ filteredUsers' = filteredUsers]_vars

\* a delete has failed and its target is still held
C8_Witness ==
    /\ notice = "Failed to delete user"
    /\ \E k \in DOMAIN users : users[k] = deletingUser

\* C9: a confirm issues one delete request, for the target the dialog was
\* opened on, and when the request completes the dialog is closed and
\* isDeleting is cleared: isDeleting holds only while the request is in flight
C9_ConfirmThenClosed ==
    [][/\ (Len(delReqs') > Len(delReqs))
              => (/\ isDeleteDialogOpen
                  /\ delReqs = <<>>
                  /\ delReqs' = <<[user |-> deletingUser]>>)
       /\ (Len(delReqs') < Len(delReqs))
              => (~isDeleteDialogOpen' /\ ~isDeleting')
       /\ isDeleting' <=> (delReqs' # <<>>)]_vars

\* a failed delete has left the dialog closed and isDeleting cleared
C9_Witness ==
    /\ notice = "Failed to delete user"
    /\ ~isDeleteDialogOpen
    /\ ~isDeleting
    /\ delReqs = <<>>

\* C10: the delete dialog closes on cancel or dismissal only when no delete
\* request is in flight, and then without a request and without a change of
\* the list; while a request is in flight only its completion closes it
C10_CancelOnlyFromOpen ==
    [][(isDeleteDialogOpen /\ ~isDeleteDialogOpen')
       => IF isDeleting
          THEN Len(delReqs') < Len(delReqs)
          ELSE delReqs' = delReqs /\ users' = users]_vars

\* the page of the list endpoint that serves a record
PageOf(user) == ((user.id - 1) \div PageSize) + 1

\* C11: a failed page fetch leaves the held records and the page count as they
\* were, and the current page number names the page the held records came from
C11_FailedFetchKeepsPage ==
    [][(notice' = "Failed to load users")
       => (/\ users' = users
           /\ totalPages' = totalPages
           /\ \A k \in DOMAIN users' : PageOf(users'[k]) = currentPage')]_vars

\* C12: a page change that would move the current page below 1 or above
\* total_pages is a no-op: every change of the current page lands within
\* 1..total_pages, and a press of Next or Previous that would leave the range
\* changes no list state and issues no fetch
C12_OutOfRangeIsNoOp ==
    [][/\ (currentPage' # currentPage) => (currentPage' \in 1..totalPages)
       /\ (goToNextPage /\ currentPage + 1 > totalPages)
              => UNCHANGED <<pageVars, listReqs>>
       /\ (goToPrevPage /\ currentPage - 1 < 1)
              => UNCHANGED <<pageVars, listReqs>>]_vars

\* C13: once the filter effect has run, the filtered view is the filter of the
\* held records by the current search term: after a term change, after a page
\* fetch under a term, after an update and after a delete
C13_ViewIsFilterOfHeld == filteredUsers = FilterUsers(users, searchQuery)

\* under the term "bA" an update has set the last name of a held record to
\* "B", and the record, which matched as served, is no longer in the view
C13_Witness ==
    /\ notice = "User updated successfully"
    /\ searchQuery = <<"b", "A">>
    /\ \E k \in DOMAIN users :
           /\ users[k].last_name = <<"B">>
           /\ includes(toLowerCase(ServerUser(users[k].id).last_name),
                       toLowerCase(searchQuery))
           /\ \A j \in DOMAIN filteredUsers : filteredUsers[j].id # users[k].id

InFlight ==
    Len(loginReqs) + Len(listReqs) + Len(updReqs) + Len(delReqs) + OrphanCount

\* C15: logout succeeds without a network call: after it no token is
\* persisted, token is null, isAuthenticated is false and the application is
\* on the login view, whatever the session state was
C15_LogoutClearsSession ==
    [][(notice' = "Logged out successfully")
       => (/\ stored' = null
           /\ token' = null
           /\ ~isAuthenticated'
           /\ route' = "/login"
           /\ ~mounted'
           /\ InFlight' = InFlight)]_vars

\* a logout has run while a login was in flight
C15_Witness ==
    /\ notice = "Logged out successfully"
    /\ loginReqs # <<>>
    /\ stored = null
    /\ token = null
    /\ ~isAuthenticated
    /\ route = "/login"

\* C16: the records view is shown only to an authenticated session: whenever
\* isAuthenticated is false no records view is mounted and the location is
\* the login route
C16_GateKeepsViewBehindSession ==
    ~isAuthenticated => (~mounted /\ route = "/login")

\* a logout has unmounted the records view while a request of it was in flight
C16_Witness ==
    /\ notice = "Logged out successfully"
    /\ ~isAuthenticated
    /\ ~mounted
    /\ route = "/login"
    /\ OrphanCount > 0

\* C17: from the start and through every login and logout, isAuthenticated is
\* true exactly when token is not null and exactly when a token is persisted,
\* and the token in memory is the persisted one
C17_SessionAgreesWithStorage ==
    /\ isAuthenticated <=> (token # null)
    /\ isAuthenticated <=> (stored # null)
    /\ token = stored

\* a login has succeeded with a token that is in memory and persisted
C17_Witness ==
    /\ notice = "Login successful"
    /\ isAuthenticated
    /\ token = "t2"
    /\ stored = "t2"

\* C18: a page change is not taken while a list fetch is in flight, so the
\* view has at most one list fetch outstanding, a fetch is only issued when
\* none is, and the records a completing fetch applies are those of the
\* current page number
C18_OneFetchOfCurrentPage ==
    [][/\ Len(listReqs') <= 1
       /\ (Len(listReqs') > Len(listReqs))
              => (listReqs = <<>> /\ (mounted => ~loading))
       /\ (listReqs' # <<>>) => (loading' /\ listReqs'[1].page = currentPage')
       /\ (Len(listReqs') < Len(listReqs) /\ mounted' /\ notice' = "none")
              => (/\ currentPage' = listReqs[1].page
                  /\ \A k \in DOMAIN users' :
                         PageOf(users'[k]) = currentPage')]_vars

\* the fetch of page 2 has completed and the view holds the records of page 2
C18_Witness ==
    /\ currentPage = 2
    /\ ~loading
    /\ listReqs = <<>>
    /\ users # <<>>
    /\ \A k \in DOMAIN users : PageOf(users[k]) = 2

\* C19: the completion of a list, update or delete request whose records view
\* has been unmounted changes no list, dialog or session state, and nothing of
\* a view mounted afterwards
C19_OrphanCompletionIgnored ==
    [][(OrphanCount' < OrphanCount)
       => UNCHANGED <<pageVars, editVars, deleteVars, netVars, sessionVars,
                      route, mounted>>]_vars

\* an update request of an unmounted view has succeeded while the view mounted
\* after it is still loading its first page
C19_Witness ==
    /\ notice = "User updated successfully"
    /\ mounted
    /\ loading
    /\ users = <<>>
    /\ listReqs = <<[page |-> 1]>>

\* C20: each dialog has at most one request in flight: a submit or confirm
\* starts a request only when no request of the dialog is pending, also after
\* the dialog was closed and opened again
C20_OneRequestPerDialog ==
    [][/\ Len(updReqs') <= 1
       /\ Len(delReqs') <= 1
       /\ (Len(updReqs') > Len(updReqs)) => (updReqs = <<>> /\ ~isSubmitting)
       /\ (Len(delReqs') > Len(delReqs)) => (delReqs = <<>> /\ ~isDeleting)
       /\ (updReqs' # <<>>) => isSubmitting'
       /\ (delReqs' # <<>>) => isDeleting']_vars

\* while an update and a delete are in flight, the edit dialog, closed in
\* between, is open again on another record than the one submitted
C20_Witness ==
    /\ Len(updReqs) = 1
    /\ Len(delReqs) = 1
    /\ isEditModalOpen
    /\ isSubmitting
    /\ isDeleting
    /\ editingUser.id # updReqs[1].id

\* C21: the completion of an edit submission or of a delete confirmation
\* closes only the dialog session that started it: when a completion closes an
\* open dialog, the completed request is one that dialog session started, so it
\* is a request for the record the dialog is open on
C21_CompletionClosesOwnSession ==
    [][/\ (Len(updReqs') < Len(updReqs) /\ isEditModalOpen /\ ~isEditModalOpen')
              => \E i \in DOMAIN updReqs :
                     /\ updReqs' = RemoveAt(updReqs, i)
                     /\ updReqs[i].id = editingUser.id
       /\ (Len(delReqs') < Len(delReqs) /\ isDeleteDialogOpen
               /\ ~isDeleteDialogOpen')
              => \E i \in DOMAIN delReqs :
                     /\ delReqs' = RemoveAt(delReqs, i)
                     /\ delReqs[i].user.id = deletingUser.id]_vars

\* C22: once logout has run, the session stays unauthenticated with no
\* persisted token until a login started after that logout succeeds. In the
\* state a logout leaves, every login in flight was started before it and none
\* has been started since, so no step from that state authenticates the
\* session or persists a token
C22_LogoutOutlivesPendingLogin ==
    [][(notice = "Logged out successfully")
       => (/\ ~isAuthenticated'
           /\ token' = null
           /\ stored' = null)]_vars

\* C23: in every reachable state 1 <= current page <= total_pages, for any
\* sequence of page changes and fetch responses, including responses whose
\* total_pages differs from the one received before
C23_PageWithinRange == 1 <= currentPage /\ currentPage <= totalPages

====
